---- MODULE Spec2Model ----
(***************************************************************************)
(* Flowers Forever: the HTTP facade in front of the Recurly billing        *)
(* provider.  The model covers the webhook receiver                        *)
(* (backend/api/webhooks.py), the subscription endpoint in its two         *)
(* implementations (backend/api/subscribe.py, the Flask blueprint, and     *)
(* api/subscribe.py, the serverless handler), the payload validator        *)
(* (backend/utils/validators.py), the provider client accessor             *)
(* (backend/utils/recurly_client.py) and the account endpoint group        *)
(* (backend/api/account.py).                                               *)
(*                                                                         *)
(* A Python str is a sequence of one-character strings, so that strip,     *)
(* lower, upper and the regular expressions are computed character by      *)
(* character.  A decoded JSON value is a record [t, n, s, d]: its Python   *)
(* type, its number (int, bool, length of a list), its characters (str)    *)
(* and its items (dict).                                                   *)
(***************************************************************************)
EXTENDS Integers, Sequences, FiniteSets, TLC

VARIABLES
    client,   \* utils.recurly_client.client: "None" or "Client"
    pc,       \* "idle": waiting for a request; "responded": a response is out
    req,      \* the request being answered
    resp,     \* the response sent for it
    events    \* what the handler did, in order: provider calls, parses, handlers

vars == <<client, pc, req, resp, events>>

(***************************************************************************)
(* Bounds of the model.                                                    *)
(***************************************************************************)
\* A subscribe payload is the well-formed sample payload with at most this
\* many of its fields replaced by other JSON values.
MaxEdits == 1

(***************************************************************************)
(* Python strings.                                                         *)
(***************************************************************************)
Chars(str) == [i \in 1..Len(str) |-> SubSeq(str, i, i)]

\* A character outside ASCII (e-acute), as one element of a str.
NonAsciiChar == "U+00E9"

\* str.isspace() / the class \s of re for the characters of the model.
Whitespace == {" ", "\t", "\n", "\r", "\f"}

\* The class \d of re for the characters of the model.
DigitChars == {"0", "1", "2", "3", "4", "5", "6", "7", "8", "9"}

UpperLetters == Chars("ABCDEFGHIJKLMNOPQRSTUVWXYZ")
LowerLetters == Chars("abcdefghijklmnopqrstuvwxyz")

LowerChar(c) ==
    IF \E i \in 1..26 : UpperLetters[i] = c
    THEN LowerLetters[CHOOSE i \in 1..26 : UpperLetters[i] = c]
    ELSE c

UpperChar(c) ==
    IF \E i \in 1..26 : LowerLetters[i] = c
    THEN UpperLetters[CHOOSE i \in 1..26 : LowerLetters[i] = c]
    ELSE c

\* str.lower() and str.upper()
lower(s) == [i \in 1..Len(s) |-> LowerChar(s[i])]
upper(s) == [i \in 1..Len(s) |-> UpperChar(s[i])]

\* str.strip(): leading and trailing whitespace removed
strip(s) ==
    LET keep == {i \in 1..Len(s) : s[i] \notin Whitespace}
    IN  IF keep = {} THEN <<>>
        ELSE LET first == CHOOSE i \in keep : \A j \in keep : i <= j
                 last  == CHOOSE i \in keep : \A j \in keep : j <= i
             IN  SubSeq(s, first, last)

\* Where "$" of a pattern matches in s: at the end, and before a final newline.
DollarEnds(s) ==
    {Len(s)} \cup (IF Len(s) > 0 /\ s[Len(s)] = "\n" THEN {Len(s) - 1} ELSE {})

\* The decimal digits of a natural number: str(n)
RECURSIVE IntToStr(_)
IntToStr(n) ==
    LET d == <<Chars("0123456789")[(n % 10) + 1]>>
    IN  IF n < 10 THEN d ELSE IntToStr(n \div 10) \o d

\* int(s) for a str of ASCII digits
RECURSIVE DigitsToInt(_)
DigitsToInt(s) ==
    IF s = <<>> THEN 0
    ELSE 10 * DigitsToInt(SubSeq(s, 1, Len(s) - 1))
         + (CHOOSE k \in 0..9 : Chars("0123456789")[k + 1] = s[Len(s)])

(***************************************************************************)
(* Decoded JSON values and the Python operations the code applies to them. *)
(***************************************************************************)
NoItems == <<>>

JV(t, n, s, d) == [t |-> t, n |-> n, s |-> s, d |-> d]

Absent    == JV("absent", 0, <<>>, NoItems)   \* the key is not in the dict
PyNone    == JV("null", 0, <<>>, NoItems)
PyBool(b) == JV("bool", IF b THEN 1 ELSE 0, <<>>, NoItems)
PyInt(n)  == JV("int", n, <<>>, NoItems)
PyStr(s)  == JV("str", 0, s, NoItems)
PyList(n) == JV("list", n, <<>>, NoItems)      \* a list of n items
PyDict(d) == JV("dict", 0, <<>>, d)            \* d[key] is Absent for a missing key

Str(text) == PyStr(Chars(text))

isinstance_str(v)  == v.t = "str"
isinstance_dict(v) == v.t = "dict"

\* bool(v), as "if v:", "v and ..." and "v or ..." take it
Truthy(v) ==
    CASE v.t = "str"  -> Len(v.s) > 0
      [] v.t = "int"  -> v.n # 0
      [] v.t = "bool" -> v.n # 0
      [] v.t = "list" -> v.n > 0
      [] v.t = "dict" -> \E k \in DOMAIN v.d : v.d[k].t # "absent"
      [] OTHER        -> FALSE

\* hash(v) is defined: v can be looked up in a set
Hashable(v) == v.t \notin {"list", "dict"}

\* dict.get(key, default)
get(data, key, default) ==
    IF key \in DOMAIN data.d /\ data.d[key].t # "absent" THEN data.d[key] ELSE default

\* str(v), for the values that reach a str() or an f-string
PyStrOf(v) ==
    CASE v.t = "str"  -> v.s
      [] v.t = "int"  -> IntToStr(v.n)
      [] v.t = "bool" -> IF v.n # 0 THEN Chars("True") ELSE Chars("False")
      [] v.t = "null" -> Chars("None")
      [] v.t = "list" -> Chars("[...]")
      [] OTHER        -> Chars("{...}")

\* The outcome of a Python call: a value, or an exception of class exc.
Returned(v) == [raised |-> FALSE, exc |-> "", value |-> v]
Raised(cls) == [raised |-> TRUE, exc |-> cls, value |-> <<>>]

(***************************************************************************)
(* backend/utils/validators.py                                             *)
(***************************************************************************)
VALID_PLAN_CODES ==
    { Chars("1399"), Chars("classic-monthly"), Chars("premium-monthly"),
      Chars("deluxe-monthly"), Chars("biweekly-delivery"), Chars("weekly-delivery"),
      Chars("roses-monthly"), Chars("tropical-monthly"), Chars("petsafe-monthly"),
      Chars("plants-monthly") }

US_STATES ==
   {
     Chars("AL"), Chars("AK"), Chars("AZ"), Chars("AR"), Chars("CA"), Chars("CO"), Chars("CT"), Chars("DE"), Chars("FL"), Chars("GA"),
     Chars("HI"), Chars("ID"), Chars("IL"), Chars("IN"), Chars("IA"), Chars("KS"), Chars("KY"), Chars("LA"), Chars("ME"), Chars("MD"),
     Chars("MA"), Chars("MI"), Chars("MN"), Chars("MS"), Chars("MO"), Chars("MT"), Chars("NE"), Chars("NV"), Chars("NH"), Chars("NJ"),
     Chars("NM"), Chars("NY"), Chars("NC"), Chars("ND"), Chars("OH"), Chars("OK"), Chars("OR"), Chars("PA"), Chars("RI"), Chars("SC"),
     Chars("SD"), Chars("TN"), Chars("TX"), Chars("UT"), Chars("VT"), Chars("VA"), Chars("WA"), Chars("WV"), Chars("WI"), Chars("WY")
   }

\* An error message: the text of the f-string, the key and the value put in it.
Msg(fmt, key, val) == [fmt |-> fmt, key |-> key, val |-> val]

\* re.match(r"^[^\s@]+@[^\s@]+\.[^\s@]+$", s) is not None
EmailClass(c) == c \notin Whitespace /\ c # "@"

EmailMatch(s) ==
    \E e \in DollarEnds(s) : \E i \in 1..e : \E j \in 1..e :
        /\ 1 < i /\ i + 1 < j /\ j < e
        /\ s[i] = "@" /\ s[j] = "."
        /\ \A k \in 1..(i - 1) : EmailClass(s[k])
        /\ \A k \in (i + 1)..(j - 1) : EmailClass(s[k])
        /\ \A k \in (j + 1)..e : EmailClass(s[k])

\* re.match(r"^\d{5}$", s) is not None
ZipMatch(s) ==
    \E e \in DollarEnds(s) : e = 5 /\ \A k \in 1..5 : s[k] \in DigitChars

\* _required(data, *keys): one message per key that is missing, blank or no str
_required(data, keys) ==
    LET missing(key) ==
            LET val == get(data, key, Str(""))
            IN  ~isinstance_str(val) \/ strip(val.s) = <<>>
        bad == SelectSeq(keys, missing)
    IN  [i \in 1..Len(bad) |-> Msg("'%s' is required.", bad[i], <<>>)]

RequiredTopLevel == <<"recurly_token", "plan_code", "first_name", "last_name", "email">>
RequiredAddress  == <<"address1", "city", "state", "zip">>

\* Lines 54-57: the email format check; re.match raises TypeError on a non-str
EmailCheck(data) ==
    LET email == get(data, "email", Str(""))
    IN  IF ~Truthy(email) THEN Returned(<<>>)
        ELSE IF ~isinstance_str(email) THEN Raised("TypeError")
        ELSE IF ~EmailMatch(email.s)
             THEN Returned(<<Msg("'email' is not a valid email address.", "", <<>>)>>)
             ELSE Returned(<<>>)

\* Lines 59-62: the plan whitelist; "in" on a set raises TypeError on an
\* unhashable value
PlanCheck(data) ==
    LET plan_code == get(data, "plan_code", Str(""))
    IN  IF ~Truthy(plan_code) THEN Returned(<<>>)
        ELSE IF ~Hashable(plan_code) THEN Raised("TypeError")
        ELSE IF ~(isinstance_str(plan_code) /\ plan_code.s \in VALID_PLAN_CODES)
             THEN Returned(<<Msg("'plan_code' '%s' is not a recognised plan.", "",
                                 PyStrOf(plan_code))>>)
             ELSE Returned(<<>>)

\* Lines 71-73: the state check; state.upper() raises AttributeError on a non-str
StateCheck(address, fmt) ==
    LET state == get(address, "state", Str(""))
    IN  IF ~Truthy(state) THEN Returned(<<>>)
        ELSE IF ~isinstance_str(state) THEN Raised("AttributeError")
        ELSE IF upper(state.s) \notin US_STATES
             THEN Returned(<<Msg(fmt, "", state.s)>>)
             ELSE Returned(<<>>)

\* Lines 75-77: the ZIP check, on str(zip_code)
ZipCheck(address) ==
    LET zip_code == get(address, "zip", Str(""))
    IN  IF Truthy(zip_code) /\ ~ZipMatch(PyStrOf(zip_code))
        THEN <<Msg("'address.zip' must be a 5-digit US ZIP code.", "", <<>>)>>
        ELSE <<>>

\* Lines 64-77: the address sub-object
AddressCheck(data) ==
    LET address == get(data, "address", PyNone)
    IN  IF ~isinstance_dict(address)
        THEN Returned(<<Msg("'address' must be an object.", "", <<>>)>>)
        ELSE LET st == StateCheck(address,
                           "'address.state' '%s' is not a valid US state abbreviation.")
             IN  IF st.raised THEN st
                 ELSE Returned(_required(address, RequiredAddress) \o st.value
                               \o ZipCheck(address))

\* validate_subscription_payload(data): Returned(the list of errors), or the
\* exception a check raises
validate_subscription_payload(data) ==
    IF ~isinstance_dict(data)
    THEN Returned(<<Msg("Request body must be a JSON object.", "", <<>>)>>)
    ELSE LET em == EmailCheck(data)
             pl == PlanCheck(data)
             ad == AddressCheck(data)
         IN  IF em.raised THEN em
             ELSE IF pl.raised THEN pl
             ELSE IF ad.raised THEN ad
             ELSE Returned(_required(data, RequiredTopLevel) \o em.value
                           \o pl.value \o ad.value)

(***************************************************************************)
(* api/subscribe.py: the serverless handler's own validator                *)
(***************************************************************************)
\* Lines 56-58 and 69-71: the loops over the required keys
RequiredLoop(data, keys, fmt) ==
    LET missing(key) ==
            LET val == get(data, key, Str(""))
            IN  ~isinstance_str(val) \/ strip(val.s) = <<>>
        bad == SelectSeq(keys, missing)
    IN  [i \in 1..Len(bad) |-> Msg(fmt, bad[i], <<>>)]

\* Lines 65-77: the address sub-object
AddressLoop(data) ==
    LET address == get(data, "address", PyNone)
    IN  IF ~isinstance_dict(address)
        THEN Returned(<<Msg("'address' must be an object.", "", <<>>)>>)
        ELSE LET st == StateCheck(address, "'address.state' '%s' is not a valid US state.")
             IN  IF st.raised THEN st
                 ELSE Returned(RequiredLoop(address, RequiredAddress,
                                            "'address.%s' is required.")
                               \o st.value \o ZipCheck(address))

\* _validate(data): data.get raises AttributeError when data is no dict
_validate(data) ==
    IF ~isinstance_dict(data) THEN Raised("AttributeError")
    ELSE LET em == EmailCheck(data)
             pl == PlanCheck(data)
             ad == AddressLoop(data)
         IN  IF em.raised THEN em
             ELSE IF pl.raised THEN pl
             ELSE IF ad.raised THEN ad
             ELSE Returned(RequiredLoop(data, RequiredTopLevel, "'%s' is required.")
                           \o em.value \o pl.value \o ad.value)

(***************************************************************************)
(* Exceptions: the classes the code names in its except clauses, with      *)
(* their base classes, and what a provider call can do.                    *)
(***************************************************************************)
ExcBase ==
    [ c \in { "ValidationError", "NotFoundError", "TransactionError",
              "InvalidTokenError", "UnprocessableEntityError", "ClientError",
              "InternalServerError", "ServerError", "ResponseError", "ApiError",
              "NetworkError", "TypeError", "AttributeError", "ValueError",
              "LookupError", "ParseError", "SyntaxError", "RuntimeError",
              "Exception" } |->
        CASE c \in {"ValidationError", "TransactionError", "InvalidTokenError"}
                 -> "UnprocessableEntityError"
          [] c = "UnprocessableEntityError" -> "ClientError"
          [] c = "NotFoundError"            -> "ClientError"
          [] c = "ClientError"              -> "ResponseError"
          [] c = "InternalServerError"      -> "ServerError"
          [] c = "ServerError"              -> "ResponseError"
          [] c = "ResponseError"            -> "ApiError"
          [] c = "ParseError"               -> "SyntaxError"
          [] c = "Exception"                -> "BaseException"
          [] OTHER                          -> "Exception" ]

\* isinstance(e, cls) for an exception e of class c
RECURSIVE IsInstance(_, _)
IsInstance(c, cls) ==
    \/ c = cls
    \/ c \in DOMAIN ExcBase /\ IsInstance(ExcBase[c], cls)

\* The except clause that catches an exception of class c: the first of
\* clauses (class names, in source order) it is an instance of; 0 for none.
Catches(clauses, c) ==
    LET hit == {i \in 1..Len(clauses) : IsInstance(c, clauses[i])}
    IN  IF hit = {} THEN 0 ELSE CHOOSE i \in hit : \A j \in hit : i <= j

\* What a provider call does: it returns value, or raises an exception of
\* class exc whose str() is msg and whose error.params is params.
Ok(value) ==
    [raised |-> FALSE, exc |-> "", msg |-> "", params |-> <<>>, value |-> value]
Throws(cls, msg, params) ==
    [raised |-> TRUE, exc |-> cls, msg |-> msg, params |-> params, value |-> <<>>]
NoOutcome == Ok(<<>>)

\* The texts a provider error can carry.
ErrorTexts == {"provider detail A", "provider detail B"}

(***************************************************************************)
(* Responses and recorded effects.                                         *)
(***************************************************************************)
NoMsg == Msg("", "", <<>>)
Text(text) == Msg(text, "", <<>>)

\* A response: the status and the members of the JSON body (absent members
\* are Absent, "absent", NoMsg or empty).
BaseResp ==
    [ status |-> 0, via |-> "handler", success |-> "absent", message |-> NoMsg,
      error |-> "", text |-> "", errors |-> <<>>,
      three_d_secure_action_token_id |-> Absent,
      subscription_id |-> Absent, account_code |-> Absent, state |-> Absent,
      current_period_ends_at |-> Absent, payload |-> "" ]

\* jsonify({"success": False, "message": message}), status
Failure(status, message) ==
    [BaseResp EXCEPT !.status = status, !.success = "false", !.message = message]

\* app.py, errorhandler(500): what Flask answers when a view raises
internal_error ==
    [Failure(500, Text("Internal server error")) EXCEPT !.via = "errorhandler"]

\* http.server: an exception that leaves do_POST ends the connection with no
\* response written
NoResponse == [BaseResp EXCEPT !.via = "uncaught"]

\* One effect of a handler: a provider call (op, the id it targets, its body)
\* or a step of the webhook receiver.
Ev(op, ref, body) == [op |-> op, ref |-> ref, body |-> body]

Result(r, evs) == [resp |-> r, events |-> evs]

(***************************************************************************)
(* backend/utils/recurly_client.py and the accessor of api/subscribe.py    *)
(***************************************************************************)
\* get_client() and the module-level try/except: the singleton, or None
get_client(environ) ==
    LET api_key == get(environ, "RECURLY_PRIVATE_API_KEY", Str(""))
    IN  IF ~Truthy(api_key) \/ api_key = Str("your-private-api-key-here")
        THEN "None" ELSE "Client"

\* _get_client() of the serverless handler, called on every request
_get_client(environ) ==
    LET api_key == get(environ, "RECURLY_PRIVATE_API_KEY", Str(""))
    IN  IF ~Truthy(api_key) THEN "None" ELSE "Client"

(***************************************************************************)
(* The subscription endpoint: helpers shared by both implementations       *)
(***************************************************************************)
\* re.sub(r"[^a-z0-9._-]", "-", email.lower())[:50]
SafeChars == {LowerLetters[i] : i \in 1..26} \cup DigitChars \cup {".", "_", "-"}

\* A faulty variant of _account_code_from_email: the result is not cut
_account_code_from_email_uncut(email) ==
    LET low == lower(email)
    IN  [i \in 1..Len(low) |-> IF low[i] \in SafeChars THEN low[i] ELSE "-"]

_account_code_from_email(email) ==
    LET low  == lower(email)
        safe == [i \in 1..Len(low) |-> IF low[i] \in SafeChars THEN low[i] ELSE "-"]
    IN  SubSeq(safe, 1, IF Len(safe) < 50 THEN Len(safe) ELSE 50)

\* The parts of s between the "-" characters
RECURSIVE SplitDash(_)
SplitDash(s) ==
    LET dashes == {i \in 1..Len(s) : s[i] = "-"}
    IN  IF dashes = {} THEN <<s>>
        ELSE LET i == CHOOSE k \in dashes : \A j \in dashes : k <= j
             IN  <<SubSeq(s, 1, i - 1)>> \o SplitDash(SubSeq(s, i + 1, Len(s)))

AllDigits(s) == \A i \in 1..Len(s) : s[i] \in DigitChars

DaysInMonth(y, m) ==
    IF m = 2
    THEN (IF (y % 4 = 0 /\ y % 100 # 0) \/ y % 400 = 0 THEN 29 ELSE 28)
    ELSE IF m \in {4, 6, 9, 11} THEN 30 ELSE 31

Pad(n, width) ==
    LET digits == IntToStr(n)
    IN  [i \in 1..(width - Len(digits)) |-> "0"] \o digits

\* datetime.strptime(s, "%Y-%m-%d").replace(tzinfo=utc).isoformat() for a
\* str s: %Y is four digits, %m and %d one or two digits (%d also a space
\* and a digit), the whole of s must be used and the date must exist.
strptime_isoformat(s) ==
    LET parts == SplitDash(s) IN
    IF Len(parts) # 3 THEN Raised("ValueError")
    ELSE LET ys == parts[1]
             ms == parts[2]
             ds == IF Len(parts[3]) = 2 /\ parts[3][1] = " "
                   THEN SubSeq(parts[3], 2, 2) ELSE parts[3]
         IN  IF ~(Len(ys) = 4 /\ AllDigits(ys)
                  /\ Len(ms) \in {1, 2} /\ AllDigits(ms)
                  /\ Len(ds) \in {1, 2} /\ AllDigits(ds))
             THEN Raised("ValueError")
             ELSE LET y == DigitsToInt(ys)
                      m == DigitsToInt(ms)
                      d == DigitsToInt(ds)
                  IN  IF y >= 1 /\ m \in 1..12 /\ d >= 1 /\ d <= DaysInMonth(y, m)
                      THEN Returned(PyStr(Pad(y, 4) \o <<"-">> \o Pad(m, 2) \o <<"-">>
                                          \o Pad(d, 2) \o Chars("T00:00:00+00:00")))
                      ELSE Raised("ValueError")

\* v or None
OrNone(v) == IF Truthy(v) THEN v ELSE PyNone

\* The request body built for client.create_subscription from a payload
\* that passed validation, before the optional members are attached.
subscription_body(data) ==
    LET address == data.d["address"] IN
    [ plan_code |-> data.d["plan_code"],
      currency  |-> Str("USD"),
      account   |->
        [ code       |-> PyStr(_account_code_from_email(data.d["email"].s)),
          first_name |-> PyStr(strip(data.d["first_name"].s)),
          last_name  |-> PyStr(strip(data.d["last_name"].s)),
          email      |-> PyStr(lower(strip(data.d["email"].s))),
          address    |->
            [ street1     |-> address.d["address1"],
              street2     |-> OrNone(get(address, "address2", PyNone)),
              city        |-> address.d["city"],
              region      |-> PyStr(upper(address.d["state"].s)),
              postal_code |-> address.d["zip"],
              country     |-> get(address, "country", Str("US")),
              phone       |-> OrNone(get(data, "phone", PyNone)) ],
          billing_info |->
            [ token_id |-> data.d["recurly_token"],
              three_d_secure_action_result_token_id |-> Absent ] ],
      starts_at    |-> Absent,
      coupon_codes |-> <<>> ]

\* backend/api/subscribe.py lines 101-105: the 3-D-Secure result token
attach_tds(body, data) ==
    LET tds_result == get(data, "three_d_secure_action_result_token_id", PyNone)
    IN  IF Truthy(tds_result)
        THEN [body EXCEPT
                !.account.billing_info.three_d_secure_action_result_token_id = tds_result]
        ELSE body

\* The optional start date: strptime raises TypeError on a non-str, and the
\* ValueError of a str that is no date is caught
attach_start_date(body, data) ==
    LET start_date == get(data, "start_date", Str("asap"))
    IN  IF ~(Truthy(start_date) /\ start_date # Str("asap")) THEN Returned(body)
        ELSE IF ~isinstance_str(start_date) THEN Raised("TypeError")
        ELSE LET dt == strptime_isoformat(start_date.s)
             IN  IF dt.raised THEN Returned(body)
                 ELSE Returned([body EXCEPT !.starts_at = dt.value])

\* The optional coupon: coupon_code.strip() raises AttributeError on a non-str
attach_coupon(body, data) ==
    LET coupon_code == get(data, "coupon_code", PyNone)
    IN  IF ~Truthy(coupon_code) THEN Returned(body)
        ELSE IF ~isinstance_str(coupon_code) THEN Raised("AttributeError")
        ELSE Returned([body EXCEPT
                         !.coupon_codes = <<PyStr(upper(strip(coupon_code.s)))>>])

\* The body as sent, or the exception building it raises
build_body(data, with_tds) ==
    LET b0 == subscription_body(data)
        b1 == IF with_tds THEN attach_tds(b0, data) ELSE b0
        b2 == attach_start_date(b1, data)
    IN  IF b2.raised THEN b2 ELSE attach_coupon(b2.value, data)

\* The 201 response for the subscription the provider returned
Created(subscription) ==
    [BaseResp EXCEPT
        !.status = 201, !.success = "true",
        !.subscription_id = subscription.id,
        !.account_code = subscription.account_code,
        !.state = subscription.state,
        !.current_period_ends_at = subscription.current_period_ends_at]

InvalidTokenMessage ==
    Text("Payment token is invalid or expired. Please re-enter your card details.")

(***************************************************************************)
(* backend/api/subscribe.py: POST /api/subscribe (Flask)                   *)
(***************************************************************************)
\* request.get_json(silent=True): None for a body that is no JSON
get_json(request) == IF request.is_json THEN request.json ELSE PyNone

\* Lines 156-160: the 3-D-Secure action token of a TransactionError
tds_token_of(e) ==
    IF e.params # <<>>
    THEN get(e.params[1], "three_d_secure_action_token_id", PyNone)
    ELSE PyNone

\* A faulty variant of SubscribeClauses: the clauses of TransactionError and of
\* InvalidTokenError exchanged
SubscribeClausesSwapped ==
    <<"ValidationError", "NotFoundError", "InvalidTokenError", "TransactionError",
      "ApiError", "Exception">>

\* The except clauses of create_subscription, in source order
SubscribeClauses ==
    <<"ValidationError", "NotFoundError", "TransactionError", "InvalidTokenError",
      "ApiError", "Exception">>

\* Lines 143-183: the response for an exception e of the provider call
subscribe_error(e) ==
    LET clause == Catches(SubscribeClauses, e.exc) IN
    CASE clause = 1 -> Failure(422, Text(e.msg))
      [] clause = 2 -> Failure(404, Text(e.msg))
      [] clause = 3 ->
            LET tds_token == tds_token_of(e) IN
            IF Truthy(tds_token)
            THEN [Failure(402, Text("Card authentication required."))
                    EXCEPT !.three_d_secure_action_token_id = tds_token]
            ELSE Failure(402, Text(e.msg))
      [] clause = 4 -> Failure(422, InvalidTokenMessage)
      [] clause = 5 -> Failure(502, Text("A payment error occurred. Please try again."))
      [] clause = 6 -> Failure(500, Text("Internal server error."))
      [] OTHER      -> internal_error

\* create_subscription(): the response and the provider calls made, for the
\* module's client cl, the request and what the provider call does (out)
create_subscription(cl, request, out) ==
    IF cl = "None"
    THEN Result(Failure(503, Text("Recurly API key not configured. See .env.example.")),
                <<>>)
    ELSE LET data == get_json(request) IN
    IF data.t = "null"
    THEN Result(Failure(400, Text("Request body must be JSON.")), <<>>)
    ELSE LET errors == validate_subscription_payload(data) IN
    IF errors.raised THEN Result(internal_error, <<>>)
    ELSE IF Len(errors.value) > 0
    THEN Result([Failure(422, errors.value[1]) EXCEPT !.errors = errors.value], <<>>)
    ELSE LET built == build_body(data, TRUE) IN
    IF built.raised THEN Result(internal_error, <<>>)
    ELSE LET call == <<Ev("create_subscription", <<>>, built.value)>> IN
    IF out.raised THEN Result(subscribe_error(out), call)
    ELSE Result(Created(out.value), call)

(***************************************************************************)
(* api/subscribe.py: POST /api/subscribe (serverless handler)              *)
(***************************************************************************)
\* Lines 174-188: the response for an exception e of the provider call
do_POST_error(e) ==
    LET clause == Catches(SubscribeClauses, e.exc) IN
    CASE clause = 1 -> Failure(422, Text(e.msg))
      [] clause = 2 -> Failure(404, Text(e.msg))
      [] clause = 3 -> Failure(402, Text(e.msg))
      [] clause = 4 -> Failure(422, InvalidTokenMessage)
      [] clause = 5 -> Failure(502, Text("A payment error occurred. Please try again."))
      [] clause = 6 -> Failure(500, Text("Internal server error."))
      [] OTHER      -> NoResponse

\* handler.do_POST(): json.loads raises on a body that is no JSON
do_POST(environ, request, out) ==
    IF _get_client(environ) = "None"
    THEN Result(Failure(503, Text("Recurly API key not configured.")), <<>>)
    ELSE IF ~request.is_json
    THEN Result(Failure(400, Text("Request body must be JSON.")), <<>>)
    ELSE LET data   == request.json
             errors == _validate(data) IN
    IF errors.raised THEN Result(NoResponse, <<>>)
    ELSE IF Len(errors.value) > 0
    THEN Result([Failure(422, errors.value[1]) EXCEPT !.errors = errors.value], <<>>)
    ELSE LET built == build_body(data, FALSE) IN
    IF built.raised THEN Result(NoResponse, <<>>)
    ELSE LET call == <<Ev("create_subscription", <<>>, built.value)>> IN
    IF out.raised THEN Result(do_POST_error(out), call)
    ELSE Result(Created(out.value), call)

(***************************************************************************)
(* backend/api/webhooks.py: POST /api/webhooks/recurly                     *)
(***************************************************************************)
IsAscii(s) == \A i \in 1..Len(s) : s[i] # NonAsciiChar

\* hmac.compare_digest(a, b) on two str: TypeError unless both are ASCII
compare_digest(a, b) ==
    IF IsAscii(a) /\ IsAscii(b) THEN Returned(a = b) ELSE Raised("TypeError")

\* v or ""
OrEmpty(v) == IF Truthy(v) THEN v.s ELSE <<>>

\* The encodings xml.etree can decode: those of expat and the single-byte
\* codecs.  A multi-byte codec raises ValueError, an unknown name LookupError.
XmlEncodings == [e \in {"utf-8", "shift_jis", "x-unknown"} |->
                    CASE e = "utf-8"     -> ""
                      [] e = "shift_jis" -> "ValueError"
                      [] OTHER           -> "LookupError"]

\* _parse_payload(xml_body): ET.fromstring, then the root tag
_parse_payload(xml_body) ==
    IF XmlEncodings[xml_body.encoding] # "" THEN Raised(XmlEncodings[xml_body.encoding])
    ELSE IF ~xml_body.well_formed THEN Raised("ParseError")
    ELSE Returned(xml_body.root_tag)

\* The ten handlers: the level and the label each one logs
Handlers ==
    [ h \in { "_handle_new_subscription", "_handle_canceled_subscription",
              "_handle_updated_subscription", "_handle_expired_subscription",
              "_handle_renewed_subscription", "_handle_reactivated_subscription",
              "_handle_billing_info_updated", "_handle_failed_payment",
              "_handle_successful_payment", "_handle_new_invoice" } |->
        CASE h = "_handle_new_subscription"         -> <<"info", "NEW SUBSCRIPTION">>
          [] h = "_handle_canceled_subscription"    -> <<"info", "CANCELED SUBSCRIPTION">>
          [] h = "_handle_updated_subscription"     -> <<"info", "UPDATED SUBSCRIPTION">>
          [] h = "_handle_expired_subscription"     -> <<"info", "EXPIRED SUBSCRIPTION">>
          [] h = "_handle_renewed_subscription"     -> <<"info", "RENEWED SUBSCRIPTION">>
          [] h = "_handle_reactivated_subscription" -> <<"info", "REACTIVATED SUBSCRIPTION">>
          [] h = "_handle_billing_info_updated"     -> <<"info", "BILLING INFO UPDATED">>
          [] h = "_handle_failed_payment"           -> <<"warning", "FAILED PAYMENT">>
          [] h = "_handle_successful_payment"       -> <<"info", "SUCCESSFUL PAYMENT">>
          [] OTHER                                  -> <<"info", "NEW INVOICE">> ]

\* The dispatch table mutated: two rows exchanged
HandlersSwapped ==
    [ tag \in { "new_subscription_notification", "updated_subscription_notification",
                "canceled_subscription_notification", "expired_subscription_notification",
                "renewed_subscription_notification",
                "reactivated_subscription_notification",
                "billing_info_updated_notification", "failed_payment_notification",
                "successful_payment_notification", "new_invoice_notification" } |->
        CASE tag = "new_subscription_notification"         -> "_handle_new_subscription"
          [] tag = "updated_subscription_notification"     -> "_handle_updated_subscription"
          [] tag = "canceled_subscription_notification"    -> "_handle_expired_subscription"
          [] tag = "expired_subscription_notification"     -> "_handle_canceled_subscription"
          [] tag = "renewed_subscription_notification"     -> "_handle_renewed_subscription"
          [] tag = "reactivated_subscription_notification" -> "_handle_reactivated_subscription"
          [] tag = "billing_info_updated_notification"     -> "_handle_billing_info_updated"
          [] tag = "failed_payment_notification"           -> "_handle_failed_payment"
          [] tag = "successful_payment_notification"       -> "_handle_successful_payment"
          [] OTHER                                         -> "_handle_new_invoice" ]

\* _HANDLERS: the root tag of a notification -> its handler
_HANDLERS ==
    [ tag \in { "new_subscription_notification", "updated_subscription_notification",
                "canceled_subscription_notification", "expired_subscription_notification",
                "renewed_subscription_notification",
                "reactivated_subscription_notification",
                "billing_info_updated_notification", "failed_payment_notification",
                "successful_payment_notification", "new_invoice_notification" } |->
        CASE tag = "new_subscription_notification"         -> "_handle_new_subscription"
          [] tag = "updated_subscription_notification"     -> "_handle_updated_subscription"
          [] tag = "canceled_subscription_notification"    -> "_handle_canceled_subscription"
          [] tag = "expired_subscription_notification"     -> "_handle_expired_subscription"
          [] tag = "renewed_subscription_notification"     -> "_handle_renewed_subscription"
          [] tag = "reactivated_subscription_notification" -> "_handle_reactivated_subscription"
          [] tag = "billing_info_updated_notification"     -> "_handle_billing_info_updated"
          [] tag = "failed_payment_notification"           -> "_handle_failed_payment"
          [] tag = "successful_payment_notification"       -> "_handle_successful_payment"
          [] OTHER                                         -> "_handle_new_invoice" ]

\* The webhook responses
webhook_error(status, error) == [BaseResp EXCEPT !.status = status, !.error = error]
webhook_text(status, text)   == [BaseResp EXCEPT !.status = status, !.text = text]

\* recurly_webhook(): the view under the decorator
recurly_webhook(request) ==
    LET xml_body == request.body IN
    IF xml_body.empty THEN Result(webhook_error(400, "Empty body"), <<>>)
    ELSE LET parsed == _parse_payload(xml_body)
             tried  == <<Ev("parse", <<>>, <<>>)>> IN
    IF parsed.raised
    THEN (IF IsInstance(parsed.exc, "ParseError")
          THEN Result(webhook_error(400, "Invalid XML"), tried)
          ELSE Result(internal_error, tried))
    ELSE LET event_type == parsed.value IN
    IF event_type \in DOMAIN _HANDLERS
    THEN LET handler == _HANDLERS[event_type]
             ran     == tried \o <<Ev("handler", handler, Handlers[handler])>>
         IN  \* the handler's exception, if any, is an Exception: caught and logged
             IF request.handler_raises
             THEN Result(webhook_text(200, ""),
                         ran \o <<Ev("logger.error", handler, <<>>)>>)
             ELSE Result(webhook_text(200, ""), ran)
    ELSE Result(webhook_text(200, ""), tried)

\* Lines 60-72 of the wrapper: the credentials against the configured ones
check_credentials(request, expected_user, expected_secret) ==
    LET auth == request.authorization IN
    IF ~auth.present THEN Result(webhook_text(401, "Unauthorized"), <<>>)
    ELSE LET user_ok == compare_digest(OrEmpty(auth.username), expected_user.s) IN
    IF user_ok.raised THEN Result(internal_error, <<>>)
    ELSE LET secret_ok == compare_digest(OrEmpty(auth.password), expected_secret.s) IN
    IF secret_ok.raised THEN Result(internal_error, <<>>)
    ELSE IF ~(user_ok.value /\ secret_ok.value)
    THEN Result(webhook_text(403, "Forbidden"), <<>>)
    ELSE recurly_webhook(request)

\* A faulty variant of _check_basic_auth: the development bypass is taken whether
\* or not a secret is configured
_check_basic_auth_bypass(request) ==
    LET expected_user   == get(request.environ, "RECURLY_WEBHOOK_USER", Str("recurly"))
        expected_secret == get(request.environ, "RECURLY_WEBHOOK_SECRET", Str(""))
    IN
    IF get(request.environ, "FLASK_ENV", PyNone) = Str("development")
    THEN recurly_webhook(request)
    ELSE IF ~Truthy(expected_secret)
    THEN Result(webhook_error(503, "Webhook auth not configured"), <<>>)
    ELSE check_credentials(request, expected_user, expected_secret)

\* _check_basic_auth(recurly_webhook): the decorated view
_check_basic_auth(request) ==
    LET expected_user   == get(request.environ, "RECURLY_WEBHOOK_USER", Str("recurly"))
        expected_secret == get(request.environ, "RECURLY_WEBHOOK_SECRET", Str(""))
    IN
    IF ~Truthy(expected_secret)
    THEN (IF get(request.environ, "FLASK_ENV", PyNone) = Str("development")
          THEN recurly_webhook(request)
          ELSE Result(webhook_error(503, "Webhook auth not configured"), <<>>))
    ELSE check_credentials(request, expected_user, expected_secret)

(***************************************************************************)
(* backend/api/account.py: the account endpoint group                      *)
(***************************************************************************)
EmptyDict == PyDict([k \in {"none"} |-> Absent])

\* request.get_json(silent=True) or {}
get_json_or_empty(request) ==
    LET data == get_json(request) IN IF Truthy(data) THEN data ELSE EmptyDict

\* data.get(key, default) on the request data: AttributeError when the JSON
\* body is a non-empty value that is no dict
data_get(data, key, default) ==
    IF isinstance_dict(data) THEN Returned(get(data, key, default))
    ELSE Raised("AttributeError")

\* int(v)
int(v) ==
    CASE v.t \in {"int", "bool"} -> Returned(v.n)
      [] v.t = "str" ->
            LET s == strip(v.s) IN
            IF Len(s) > 0 /\ AllDigits(s) THEN Returned(DigitsToInt(s))
            ELSE Raised("ValueError")
      [] OTHER -> Raised("TypeError")

\* The response of an except clause: responses[i] for the i-th of clauses
\* that catches e; Flask's 500 when none does
except_map(clauses, responses, e) ==
    LET clause == Catches(clauses, e.exc)
    IN  IF clause = 0 THEN internal_error ELSE responses[clause]

Success(message, payload) ==
    [BaseResp EXCEPT !.status = 200, !.success = "true", !.message = message,
                     !.payload = payload]

NotConfigured == Failure(503, Text("Recurly not configured"))

\* f"code-{account_code}"
code_ref(account_code) == <<"code-", account_code>>

_serialize_subscription(sub) ==
    [id |-> sub.id, uuid |-> sub.uuid, state |-> sub.state, plan_code |-> sub.plan_code]

_serialize_invoice(inv) == [id |-> inv.id, number |-> inv.number, state |-> inv.state]

\* _get_active_subscription: the call it makes, and the first item or None
active_lookup(account_code) ==
    Ev("list_account_subscriptions", code_ref(account_code),
       [state |-> "active", limit |-> 1])

\* A faulty variant of first_or_none: the loop runs to the end and the last
\* item is the one kept
last_or_none(items) == IF Len(items) > 0 THEN <<items[Len(items)]>> ELSE <<>>

first_or_none(items) == IF Len(items) > 0 THEN <<items[1]>> ELSE <<>>

\* get_account(account_code)
get_account(cl, request, outs) ==
    LET clauses   == <<"NotFoundError", "ApiError">>
        failed(e) == except_map(clauses, <<Failure(404, Text("Account not found")),
                                           Failure(502, Text(e.msg))>>, e)
        call1     == <<Ev("get_account", code_ref(request.account_code), <<>>)>>
        call2     == call1 \o <<active_lookup(request.account_code)>>
    IN
    IF cl = "None" THEN Result(NotConfigured, <<>>)
    ELSE IF outs[1].raised THEN Result(failed(outs[1]), call1)
    ELSE IF outs[2].raised THEN Result(failed(outs[2]), call2)
    ELSE LET active_sub == first_or_none(outs[2].value)
         IN  Result(Success(NoMsg,
                      [account |-> outs[1].value,
                       active_subscription |->
                          IF active_sub # <<>>
                          THEN <<_serialize_subscription(active_sub[1])>> ELSE <<>>]),
                    call2)

\* list_subscriptions(account_code)
list_subscriptions(cl, request, outs) ==
    LET clauses   == <<"NotFoundError", "ApiError">>
        failed(e) == except_map(clauses, <<Failure(404, Text("Account not found")),
                                           Failure(502, Text(e.msg))>>, e)
        call1     == <<Ev("list_account_subscriptions", code_ref(request.account_code),
                          [limit |-> 20])>>
    IN
    IF cl = "None" THEN Result(NotConfigured, <<>>)
    ELSE IF outs[1].raised THEN Result(failed(outs[1]), call1)
    ELSE Result(Success(NoMsg,
                  [subscriptions |->
                     [i \in 1..Len(outs[1].value) |->
                        _serialize_subscription(outs[1].value[i])]]),
                call1)

\* pause_subscription(account_code)
pause_subscription(cl, request, outs) ==
    LET clauses   == <<"NotFoundError", "ValidationError", "ApiError">>
        failed(e) == except_map(clauses, <<Failure(404, Text("Subscription not found")),
                                           Failure(422, Text(e.msg)),
                                           Failure(502, Text(e.msg))>>, e)
        data      == get_json_or_empty(request)
        raw       == data_get(data, "remaining_pause_cycles", PyInt(1))
        cycles    == IF raw.raised THEN raw ELSE int(raw.value)
        call1     == <<active_lookup(request.account_code)>>
    IN
    IF cl = "None" THEN Result(NotConfigured, <<>>)
    ELSE IF cycles.raised THEN Result(internal_error, <<>>)
    ELSE IF outs[1].raised THEN Result(failed(outs[1]), call1)
    ELSE LET active_sub == first_or_none(outs[1].value) IN
    IF active_sub = <<>>
    THEN Result(Failure(404, Text("No active subscription found")), call1)
    ELSE LET call2 == call1 \o <<Ev("pause_subscription", active_sub[1].id,
                                    [remaining_pause_cycles |-> cycles.value])>> IN
    IF outs[2].raised THEN Result(failed(outs[2]), call2)
    ELSE Result(Success(Msg("Subscription paused for %s billing cycle(s).", "",
                            IntToStr(cycles.value)),
                        [subscription |-> _serialize_subscription(outs[2].value)]),
                call2)

\* cancel_subscription(account_code)
cancel_subscription(cl, request, outs) ==
    LET clauses   == <<"NotFoundError", "ApiError">>
        failed(e) == except_map(clauses, <<Failure(404, Text("Subscription not found")),
                                           Failure(502, Text(e.msg))>>, e)
        data      == get_json_or_empty(request)
        at_period_end == data_get(data, "at_end_of_billing_period", PyBool(TRUE))
        call1     == <<active_lookup(request.account_code)>>
    IN
    IF cl = "None" THEN Result(NotConfigured, <<>>)
    ELSE IF at_period_end.raised THEN Result(internal_error, <<>>)
    ELSE IF outs[1].raised THEN Result(failed(outs[1]), call1)
    ELSE LET active_sub == first_or_none(outs[1].value) IN
    IF active_sub = <<>>
    THEN Result(Failure(404, Text("No active subscription found")), call1)
    ELSE LET soft  == Truthy(at_period_end.value)
             call2 == call1 \o
                      (IF soft
                       THEN <<Ev("cancel_subscription", active_sub[1].id, <<>>)>>
                       ELSE <<Ev("terminate_subscription", active_sub[1].id,
                                 [refund |-> "none"])>>)
         IN
    IF outs[2].raised THEN Result(failed(outs[2]), call2)
    ELSE Result(Success(IF soft
                        THEN Text("Subscription canceled. You'll continue to receive deliveries until the end of your billing period.")
                        ELSE Text("Subscription canceled."),
                        [subscription |-> _serialize_subscription(outs[2].value)]),
                call2)

\* (data.get(key) or "").strip(): AttributeError on a truthy value that is no str
stripped_member(data, key) ==
    LET raw == data_get(data, key, PyNone) IN
    IF raw.raised THEN raw
    ELSE IF ~Truthy(raw.value) THEN Returned(<<>>)
    ELSE IF ~isinstance_str(raw.value) THEN Raised("AttributeError")
    ELSE Returned(strip(raw.value.s))

\* change_plan(account_code)
change_plan(cl, request, outs) ==
    LET clauses   == <<"NotFoundError", "ValidationError", "ApiError">>
        failed(e) == except_map(clauses,
                                <<Failure(404, Text("Subscription or plan not found")),
                                  Failure(422, Text(e.msg)),
                                  Failure(502, Text(e.msg))>>, e)
        new_plan_code == stripped_member(get_json_or_empty(request), "plan_code")
        call1     == <<active_lookup(request.account_code)>>
    IN
    IF cl = "None" THEN Result(NotConfigured, <<>>)
    ELSE IF new_plan_code.raised THEN Result(internal_error, <<>>)
    ELSE IF new_plan_code.value = <<>>
    THEN Result(Failure(422, Text("'plan_code' is required.")), <<>>)
    ELSE IF outs[1].raised THEN Result(failed(outs[1]), call1)
    ELSE LET active_sub == first_or_none(outs[1].value) IN
    IF active_sub = <<>>
    THEN Result(Failure(404, Text("No active subscription found")), call1)
    ELSE LET call2 == call1 \o <<Ev("update_subscription", active_sub[1].id,
                                    [plan_code |-> new_plan_code.value])>> IN
    IF outs[2].raised THEN Result(failed(outs[2]), call2)
    ELSE Result(Success(Msg("Plan updated to %s.", "", new_plan_code.value),
                        [subscription |-> _serialize_subscription(outs[2].value)]),
                call2)

\* update_billing(account_code)
update_billing(cl, request, outs) ==
    LET clauses   == <<"NotFoundError", "ValidationError", "TransactionError", "ApiError">>
        failed(e) == except_map(clauses, <<Failure(404, Text("Account not found")),
                                           Failure(422, Text(e.msg)),
                                           Failure(402, Text(e.msg)),
                                           Failure(502, Text(e.msg))>>, e)
        token     == stripped_member(get_json_or_empty(request), "recurly_token")
        call1     == <<Ev("update_billing_info", code_ref(request.account_code),
                          [token_id |-> token.value])>>
    IN
    IF cl = "None" THEN Result(NotConfigured, <<>>)
    ELSE IF token.raised THEN Result(internal_error, <<>>)
    ELSE IF token.value = <<>>
    THEN Result(Failure(422, Text("'recurly_token' is required.")), <<>>)
    ELSE IF outs[1].raised THEN Result(failed(outs[1]), call1)
    ELSE Result(Success(Text("Payment method updated successfully."), <<>>), call1)

\* A faulty variant of list_invoices: the check of the client is missing, and
\* None.list_account_invoices raises AttributeError
list_invoices_unchecked(cl, request, outs) ==
    LET clauses   == <<"NotFoundError", "ApiError">>
        failed(e) == except_map(clauses, <<Failure(404, Text("Account not found")),
                                           Failure(502, Text(e.msg))>>, e)
        call1     == <<Ev("list_account_invoices", code_ref(request.account_code),
                          [limit |-> 20])>>
    IN
    IF cl = "None" THEN Result(internal_error, <<>>)
    ELSE IF outs[1].raised THEN Result(failed(outs[1]), call1)
    ELSE Result(Success(NoMsg,
                  [invoices |-> [i \in 1..Len(outs[1].value) |->
                                   _serialize_invoice(outs[1].value[i])]]),
                call1)

\* list_invoices(account_code)
list_invoices(cl, request, outs) ==
    LET clauses   == <<"NotFoundError", "ApiError">>
        failed(e) == except_map(clauses, <<Failure(404, Text("Account not found")),
                                           Failure(502, Text(e.msg))>>, e)
        call1     == <<Ev("list_account_invoices", code_ref(request.account_code),
                          [limit |-> 20])>>
    IN
    IF cl = "None" THEN Result(NotConfigured, <<>>)
    ELSE IF outs[1].raised THEN Result(failed(outs[1]), call1)
    ELSE Result(Success(NoMsg,
                  [invoices |-> [i \in 1..Len(outs[1].value) |->
                                   _serialize_invoice(outs[1].value[i])]]),
                call1)

(***************************************************************************)
(* The requests the model sends.                                           *)
(***************************************************************************)
TopKeys ==
    { "recurly_token", "plan_code", "first_name", "last_name", "email", "phone",
      "address", "coupon_code", "start_date", "three_d_secure_action_result_token_id" }

AddressKeys == {"address1", "address2", "city", "state", "zip", "country"}

SampleAddress ==
    PyDict([k \in AddressKeys |->
        CASE k = "address1" -> Str("123 Bloom St")
          [] k = "city"     -> Str("New York")
          [] k = "state"    -> Str("NY")
          [] k = "zip"      -> Str("10001")
          [] OTHER          -> Absent])

\* The payload of the docstring of create_subscription, optional members left out
SamplePayload ==
    PyDict([k \in TopKeys |->
        CASE k = "recurly_token" -> Str("9ce4c22f")
          [] k = "plan_code"     -> Str("classic-monthly")
          [] k = "first_name"    -> Str("Jane")
          [] k = "last_name"     -> Str("Smith")
          [] k = "email"         -> Str("jane@example.com")
          [] k = "address"       -> SampleAddress
          [] OTHER               -> Absent])

\* JSON values of every type, for any member
AnyValues == {Absent, PyNone, PyInt(5), PyList(1), Str(" ")}

\* Further values tried for one member
FieldValues(k) ==
    AnyValues \cup
    CASE k = "plan_code"   -> {Str("1399"), Str("gold")}
      [] k = "first_name"  -> {Str(" Jane ")}
      [] k = "email"       -> {Str("Jane.O'Brien+test@Example.com"), Str("jane@example"),
                               Str("other@example.com")}
      [] k = "phone"       -> {Str("5551234567")}
      [] k = "address"     -> {Str("123 Bloom St")}
      [] k = "coupon_code" -> {Str(" forever20 ")}
      [] k = "start_date"  -> {Str("asap"), Str("2025-01-31"), Str("2025-02-30"),
                               Str("someday")}
      [] k = "three_d_secure_action_result_token_id" -> {Str("3ds-result")}
      [] k = "address2"    -> {Str("Apt 4B")}
      [] k = "state"       -> {Str("ny"), Str("ZZ")}
      [] k = "zip"         -> {Str("1234"), Str("10001\n"), PyInt(10001)}
      [] k = "country"     -> {Str("CA")}
      [] OTHER             -> {}

\* One replacement: a member of the payload, or of its address
Edits ==
    UNION {{[in_address |-> FALSE, key |-> k, value |-> v] : v \in FieldValues(k)}
              : k \in TopKeys}
    \cup
    UNION {{[in_address |-> TRUE, key |-> k, value |-> v] : v \in FieldValues(k)}
              : k \in AddressKeys}

Replace(payload, e) ==
    IF ~e.in_address THEN [payload EXCEPT !.d[e.key] = e.value]
    ELSE IF isinstance_dict(payload.d["address"])
    THEN [payload EXCEPT !.d["address"].d[e.key] = e.value]
    ELSE payload

RECURSIVE Edited(_)
Edited(n) ==
    IF n = 0 THEN {SamplePayload}
    ELSE LET fewer == Edited(n - 1)
         IN  fewer \cup {Replace(payload, e) : payload \in fewer, e \in Edits}

SubscribePayloads == Edited(MaxEdits)

\* The bodies of a POST /api/subscribe: no JSON, JSON that is no object, and
\* the payloads
Body(is_json, json) == [is_json |-> is_json, json |-> json]

SubscribeBodies ==
    {Body(FALSE, PyNone)}
    \cup {Body(TRUE, v) : v \in {PyNone, PyInt(5), PyList(1), Str("x")}}
    \cup {Body(TRUE, payload) : payload \in SubscribePayloads}

\* os.environ, for the variables the code reads
EnvKeys ==
    {"RECURLY_PRIVATE_API_KEY", "RECURLY_WEBHOOK_USER", "RECURLY_WEBHOOK_SECRET",
     "FLASK_ENV"}

Environ(api_key, user, secret, flask_env) ==
    PyDict([k \in EnvKeys |->
        CASE k = "RECURLY_PRIVATE_API_KEY" -> api_key
          [] k = "RECURLY_WEBHOOK_USER"    -> user
          [] k = "RECURLY_WEBHOOK_SECRET"  -> secret
          [] OTHER                         -> flask_env])

ApiKeys == {Absent, Str("your-private-api-key-here"), Str("sk-live-1")}

ApiKeyEnvirons == {Environ(key, Absent, Absent, Absent) : key \in ApiKeys}

WebhookEnvirons ==
    { Environ(Absent, user, secret, flask_env) :
        user \in {Absent, Str("hook")},
        secret \in {Absent, Str(""), Str("s3cret")},
        flask_env \in {Absent, Str("development"), Str("production")} }

\* What the provider's create_subscription can do
NewSubscription(id, ends_at) ==
    [id |-> id, account_code |-> Str("jane-example.com"), state |-> Str("active"),
     current_period_ends_at |-> ends_at]

TdsParams(token) ==
    <<PyDict([k \in {"three_d_secure_action_token_id"} |-> token])>>

CreateOutcomes ==
    {Ok(NewSubscription(id, ends_at)) :
        id \in {Str("sub-1"), Str("sub-2")},
        ends_at \in {PyNone, Str("2025-02-01T00:00:00+00:00")}}
    \cup {Throws(cls, text, <<>>) :
            cls \in {"ValidationError", "NotFoundError", "TransactionError",
                     "InvalidTokenError", "InternalServerError", "NetworkError"},
            text \in ErrorTexts}
    \cup {Throws("TransactionError", text, TdsParams(token)) :
            text \in ErrorTexts, token \in {Absent, Str("3ds-action")}}

\* Some outcome of the call, to see whether a request gets as far as the call
ProbeCreate == CHOOSE o \in CreateOutcomes : ~o.raised

\* What the provider's account calls can do
AccountErrors ==
    {Throws(cls, text, <<>>) :
        cls \in {"NotFoundError", "ValidationError", "TransactionError",
                 "InternalServerError", "NetworkError"},
        text \in ErrorTexts}

Subscription(id, plan_code) ==
    [id |-> id, uuid |-> id, state |-> "active", plan_code |-> plan_code]

SubA == Subscription("sub-A", "classic-monthly")
SubB == Subscription("sub-B", "roses-monthly")

AccountObject ==
    [code |-> "jane-example.com", email |-> "jane@example.com",
     first_name |-> "Jane", last_name |-> "Smith"]

Invoice == [id |-> "inv-1", number |-> "1001", state |-> "paid"]

AccountFound      == AccountErrors \cup {Ok(AccountObject)}
SubscriptionLists == AccountErrors \cup {Ok(<<>>), Ok(<<SubA>>), Ok(<<SubB, SubA>>)}
SubscriptionDone  == AccountErrors \cup {Ok(SubA)}
BillingDone       == AccountErrors \cup {Ok(<<>>)}
InvoiceLists      == AccountErrors \cup {Ok(<<>>), Ok(<<Invoice>>)}

AccountCodes == {"jane-example.com", "nobody"}

\* The JSON bodies of the account endpoints: one member, of several types
AccountBodyKeys ==
    {"remaining_pause_cycles", "at_end_of_billing_period", "plan_code", "recurly_token"}

Member(key, value) ==
    Body(TRUE, PyDict([k \in AccountBodyKeys |-> IF k = key THEN value ELSE Absent]))

AccountBodies(key, values) ==
    {Body(FALSE, PyNone), Body(TRUE, PyList(1))}
    \cup {Member(key, v) : v \in {Absent, PyNone} \cup values}

AccountRequest(endpoint, account_code, body) ==
    [endpoint |-> endpoint, account_code |-> account_code,
     is_json |-> body.is_json, json |-> body.json, provider |-> <<>>]

\* The webhook requests
XmlBody(encoding, well_formed, root_tag) ==
    [empty |-> FALSE, encoding |-> encoding, well_formed |-> well_formed,
     root_tag |-> root_tag]

EmptyBody == [empty |-> TRUE, encoding |-> "utf-8", well_formed |-> FALSE, root_tag |-> ""]

RootTags ==
    DOMAIN _HANDLERS
    \cup {"new_account_notification", "{http://recurly.com}new_subscription_notification"}

WebhookBodies ==
    {EmptyBody}
    \cup {XmlBody(enc, FALSE, "") : enc \in DOMAIN XmlEncodings}
    \cup {XmlBody("utf-8", TRUE, tag) : tag \in RootTags}
    \cup {XmlBody(enc, TRUE, "canceled_subscription_notification") :
            enc \in DOMAIN XmlEncodings}

NoAuthorization == [present |-> FALSE, username |-> PyNone, password |-> PyNone]

Authorizations ==
    {NoAuthorization}
    \cup {[present |-> TRUE, username |-> u, password |-> p] :
            u \in {Str("recurly"), Str("hook"), PyStr(Chars("r") \o <<NonAsciiChar>>)},
            p \in {Str("s3cret"), Str("wrong"), Str(""),
                   PyStr(Chars("s") \o <<NonAsciiChar>> \o Chars("cret"))}}

(***************************************************************************)
(* The state machine: one action per endpoint, each the whole handler.     *)
(***************************************************************************)
NoRequest == [endpoint |-> "none"]

\* The process starts: recurly_client is imported and sets its singleton
Init ==
    /\ client \in {get_client(environ) : environ \in ApiKeyEnvirons}
    /\ pc = "idle"
    /\ req = NoRequest
    /\ resp = BaseResp
    /\ events = <<>>

Respond(request, result) ==
    /\ req' = request
    /\ resp' = result.resp
    /\ events' = result.events
    /\ pc' = "responded"
    /\ UNCHANGED client

\* POST /api/subscribe of the Flask application
FlaskSubscribe ==
    /\ pc = "idle"
    /\ \E body \in SubscribeBodies :
         \E out \in (IF create_subscription(client, body, ProbeCreate).events # <<>>
                     THEN CreateOutcomes ELSE {NoOutcome}) :
            Respond([endpoint |-> "flask_subscribe", is_json |-> body.is_json,
                     json |-> body.json, provider |-> out],
                    create_subscription(client, body, out))

\* POST /api/subscribe of the serverless function
ServerlessSubscribe ==
    /\ pc = "idle"
    /\ \E environ \in ApiKeyEnvirons : \E body \in SubscribeBodies :
         \E out \in (IF do_POST(environ, body, ProbeCreate).events # <<>>
                     THEN CreateOutcomes ELSE {NoOutcome}) :
            Respond([endpoint |-> "serverless_subscribe", environ |-> environ,
                     is_json |-> body.is_json, json |-> body.json, provider |-> out],
                    do_POST(environ, body, out))

\* POST /api/webhooks/recurly
Webhook ==
    /\ pc = "idle"
    /\ \E environ \in WebhookEnvirons : \E auth \in Authorizations :
       \E xml_body \in WebhookBodies :
         LET request == [endpoint |-> "webhook", environ |-> environ,
                         authorization |-> auth, body |-> xml_body,
                         handler_raises |-> FALSE]
             dispatched == \E i \in 1..Len(_check_basic_auth(request).events) :
                              _check_basic_auth(request).events[i].op = "handler"
         IN  \E raises \in (IF dispatched THEN BOOLEAN ELSE {FALSE}) :
                LET r == [request EXCEPT !.handler_raises = raises]
                IN  Respond(r, _check_basic_auth(r))

\* An account endpoint: handler on a request, the provider doing first and
\* then second at the calls the handler gets to make
Serve(handler(_, _, _), request, first, second) ==
    LET probe1 == CHOOSE o \in first : ~o.raised
        probe2 == CHOOSE o \in second : ~o.raised
    IN
    \E o1 \in (IF Len(handler(client, request, <<probe1, probe2>>).events) >= 1
               THEN first ELSE {NoOutcome}) :
    \E o2 \in (IF Len(handler(client, request, <<o1, probe2>>).events) >= 2
               THEN second ELSE {NoOutcome}) :
        Respond([request EXCEPT !.provider = <<o1, o2>>],
                handler(client, request, <<o1, o2>>))

GetAccount ==
    /\ pc = "idle"
    /\ \E code \in AccountCodes :
         Serve(get_account, AccountRequest("get_account", code, Body(FALSE, PyNone)),
               AccountFound, SubscriptionLists)

ListSubscriptions ==
    /\ pc = "idle"
    /\ \E code \in AccountCodes :
         Serve(list_subscriptions,
               AccountRequest("list_subscriptions", code, Body(FALSE, PyNone)),
               SubscriptionLists, {NoOutcome})

PauseSubscription ==
    /\ pc = "idle"
    /\ \E code \in AccountCodes :
       \E body \in AccountBodies("remaining_pause_cycles",
                                 {PyInt(1), PyInt(3), Str("2"), Str("two")}) :
         Serve(pause_subscription, AccountRequest("pause_subscription", code, body),
               SubscriptionLists, SubscriptionDone)

CancelSubscription ==
    /\ pc = "idle"
    /\ \E code \in AccountCodes :
       \E body \in AccountBodies("at_end_of_billing_period",
                                 {PyBool(TRUE), PyBool(FALSE), PyInt(0), Str(""),
                                  Str("false")}) :
         Serve(cancel_subscription, AccountRequest("cancel_subscription", code, body),
               SubscriptionLists, SubscriptionDone)

ChangePlan ==
    /\ pc = "idle"
    /\ \E code \in AccountCodes :
       \E body \in AccountBodies("plan_code",
                                 {Str("premium-monthly"), Str(" roses-monthly "),
                                  Str("gold"), Str(" "), PyInt(5)}) :
         Serve(change_plan, AccountRequest("change_plan", code, body),
               SubscriptionLists, SubscriptionDone)

UpdateBilling ==
    /\ pc = "idle"
    /\ \E code \in AccountCodes :
       \E body \in AccountBodies("recurly_token", {Str("tok-2"), Str(" "), PyInt(5)}) :
         Serve(update_billing, AccountRequest("update_billing", code, body),
               BillingDone, {NoOutcome})

ListInvoices ==
    /\ pc = "idle"
    /\ \E code \in AccountCodes :
         Serve(list_invoices, AccountRequest("list_invoices", code, Body(FALSE, PyNone)),
               InvoiceLists, {NoOutcome})

\* The response is out; the server waits for the next request
NextRequest ==
    /\ pc = "responded"
    /\ pc' = "idle"
    /\ req' = NoRequest
    /\ resp' = BaseResp
    /\ events' = <<>>
    /\ UNCHANGED client

Next ==
    \/ FlaskSubscribe
    \/ ServerlessSubscribe
    \/ Webhook
    \/ GetAccount
    \/ ListSubscriptions
    \/ PauseSubscription
    \/ CancelSubscription
    \/ ChangePlan
    \/ UpdateBilling
    \/ ListInvoices
    \/ NextRequest

Spec == Init /\ [][Next]_vars

(***************************************************************************)
(* The validator as a function: the payloads are drawn at the start, and   *)
(* the one action applies validate_subscription_payload.                   *)
(***************************************************************************)
\* The values tried for a required member
RequiredValues(k) == AnyValues \cup {SamplePayload.d[k]}

ValidatorPayloads ==
    { PyDict([k \in TopKeys |->
          CASE k = "recurly_token" -> token
            [] k = "plan_code"     -> plan_code
            [] k = "first_name"    -> first_name
            [] k = "last_name"     -> last_name
            [] k = "email"         -> email
            [] k = "address"       -> address
            [] OTHER               -> Absent]) :
        token \in RequiredValues("recurly_token"),
        plan_code \in RequiredValues("plan_code"),
        first_name \in RequiredValues("first_name"),
        last_name \in RequiredValues("last_name"),
        email \in RequiredValues("email"),
        address \in {Absent, SampleAddress} }

InitValidate ==
    /\ client = "None"
    /\ pc = "idle"
    /\ req \in {[endpoint |-> "validate_subscription_payload", data |-> data] :
                  data \in ValidatorPayloads}
    /\ resp = BaseResp
    /\ events = <<>>

\* errors = validate_subscription_payload(data)
Validate ==
    /\ pc = "idle"
    /\ req.endpoint = "validate_subscription_payload"
    /\ resp' = validate_subscription_payload(req.data)
    /\ pc' = "responded"
    /\ UNCHANGED <<client, req, events>>

SpecValidate == InitValidate /\ [][Validate]_vars

(***************************************************************************)
(* Vocabulary of the properties.                                           *)
(***************************************************************************)
Responded(endpoint) == pc = "responded" /\ req.endpoint = endpoint

\* The names of the handlers invoked, in order
HandlersInvoked ==
    LET hs == SelectSeq(events, LAMBDA e : e.op = "handler")
    IN  [i \in 1..Len(hs) |-> hs[i].ref]

Parsed == \E i \in 1..Len(events) : events[i].op = "parse"

ProviderCalled == events # <<>>

\* The webhook secret of the request's environment is set and not empty
SecretConfigured ==
    /\ req.environ.d["RECURLY_WEBHOOK_SECRET"].t = "str"
    /\ req.environ.d["RECURLY_WEBHOOK_SECRET"].s # <<>>

DevelopmentMode == req.environ.d["FLASK_ENV"] = Str("development")

ConfiguredUser ==
    IF req.environ.d["RECURLY_WEBHOOK_USER"].t = "str"
    THEN req.environ.d["RECURLY_WEBHOOK_USER"] ELSE Str("recurly")

CredentialsMatch ==
    /\ req.authorization.present
    /\ req.authorization.username = ConfiguredUser
    /\ req.authorization.password = req.environ.d["RECURLY_WEBHOOK_SECRET"]

\* The request passes authentication: the credentials are the configured
\* ones, or no secret is configured and the process runs in development
Authenticated ==
    \/ SecretConfigured /\ CredentialsMatch
    \/ ~SecretConfigured /\ DevelopmentMode

\* The handler named after a root tag: _handle_ and the tag less its
\* _notification
DedicatedHandler(tag) ==
    Chars("_handle_") \o SubSeq(Chars(tag), 1, Len(Chars(tag)) - Len(Chars("_notification")))

RecognisedTags ==
    { "new_subscription_notification", "canceled_subscription_notification",
      "updated_subscription_notification", "expired_subscription_notification",
      "renewed_subscription_notification", "reactivated_subscription_notification",
      "billing_info_updated_notification", "failed_payment_notification",
      "successful_payment_notification", "new_invoice_notification" }

(***************************************************************************)
(* The properties.                                                         *)
(***************************************************************************)
\* C1: every webhook request that passes authentication and whose body is
\* not empty and is well-formed XML is answered 200, whether its root tag
\* is recognised or not and whether or not the handler raises.
C1_WellFormedAcknowledged ==
    (/\ Responded("webhook")
     /\ Authenticated
     /\ ~req.body.empty
     /\ req.body.well_formed)
    => resp.status = 200

\* C2: with a webhook secret configured, a request without credentials is
\* answered 401 and a request whose credentials differ from the configured
\* ones is answered 403, and in neither case is the body parsed or a
\* handler invoked.
C2_BadCredentialsRejected ==
    (Responded("webhook") /\ SecretConfigured /\ ~CredentialsMatch)
    => /\ resp.status = (IF req.authorization.present THEN 403 ELSE 401)
       /\ ~Parsed
       /\ HandlersInvoked = <<>>

\* C3: without a webhook secret the endpoint answers 503 and does nothing
\* else, unless FLASK_ENV is development, and then the request goes to the
\* view whatever its credentials; with a secret configured a request with
\* missing or differing credentials never gets to the view, development or
\* not.
C3_UnconfiguredSecret ==
    Responded("webhook") =>
       /\ (~SecretConfigured /\ ~DevelopmentMode)
             => /\ resp.status = 503
                /\ resp.error = "Webhook auth not configured"
                /\ events = <<>>
       /\ (~SecretConfigured /\ DevelopmentMode)
             => /\ resp.status \notin {401, 403, 503}
                /\ ~req.body.empty => Parsed
                /\ resp = recurly_webhook(req).resp
                /\ events = recurly_webhook(req).events
       /\ (SecretConfigured /\ ~CredentialsMatch)
             => /\ ~Parsed
                /\ HandlersInvoked = <<>>
                /\ resp.status # 200

\* C3 witness: the bypass has let a request without credentials through to
\* a handler.
C3_Witness ==
    /\ Responded("webhook")
    /\ ~SecretConfigured
    /\ DevelopmentMode
    /\ ~req.authorization.present
    /\ resp.status = 200
    /\ HandlersInvoked # <<>>

\* C4: every webhook request that passes authentication and whose body is
\* malformed XML is answered 400 and no handler is invoked.
C4_MalformedRejected ==
    (/\ Responded("webhook")
     /\ Authenticated
     /\ ~req.body.empty
     /\ ~req.body.well_formed)
    => /\ resp.status = 400
       /\ HandlersInvoked = <<>>

\* C5: a notification that gets to the dispatch and whose root tag is one
\* of the ten recognised tags invokes the handler of that tag, once, and no
\* other; any other request invokes no handler.
C5_DedicatedHandler ==
    Responded("webhook") =>
       IF /\ Authenticated
          /\ ~req.body.empty
          /\ req.body.well_formed
          /\ req.body.encoding = "utf-8"
          /\ req.body.root_tag \in RecognisedTags
       THEN /\ Len(HandlersInvoked) = 1
            /\ Chars(HandlersInvoked[1]) = DedicatedHandler(req.body.root_tag)
       ELSE HandlersInvoked = <<>>

\* C5 witness: a cancellation has been dispatched to its handler, which
\* raised.
C5_Witness ==
    /\ Responded("webhook")
    /\ req.body.root_tag = "canceled_subscription_notification"
    /\ req.handler_raises
    /\ HandlersInvoked = <<"_handle_canceled_subscription">>
    /\ resp.status = 200

\* C6: when the provider client is not configured, every endpoint under
\* /api/account/ and POST /api/subscribe, in the Flask application and in
\* the serverless function, answers 503 with success false and calls the
\* provider not once.
C6_UnconfiguredClient ==
    /\ (/\ pc = "responded"
        /\ req.endpoint \in {"flask_subscribe", "get_account", "list_subscriptions",
                             "pause_subscription", "cancel_subscription",
                             "change_plan", "update_billing", "list_invoices"}
        /\ client = "None")
       => /\ resp.status = 503
          /\ resp.success = "false"
          /\ events = <<>>
    /\ (/\ Responded("serverless_subscribe")
        /\ ~Truthy(req.environ.d["RECURLY_PRIVATE_API_KEY"]))
       => /\ resp.status = 503
          /\ resp.success = "false"
          /\ events = <<>>

\* C6 witness: the invoices of an account were asked of an application
\* without a client.
C6_Witness ==
    /\ Responded("list_invoices")
    /\ client = "None"
    /\ resp.status = 503

\* C7: when the provider's create_subscription raises, both implementations
\* of POST /api/subscribe answer 422 for a validation error, 404 for not
\* found, 402 for a transaction error, 422 with the fixed message for an
\* invalid token, 502 for any other error of the provider's API and 500 for
\* anything else, always with success false.
C7_SubscribeErrorMapping ==
    (/\ pc = "responded"
     /\ req.endpoint \in {"flask_subscribe", "serverless_subscribe"}
     /\ ProviderCalled
     /\ req.provider.raised)
    => /\ resp.success = "false"
       /\ resp.status =
            CASE req.provider.exc = "ValidationError"   -> 422
              [] req.provider.exc = "NotFoundError"     -> 404
              [] req.provider.exc = "TransactionError"  -> 402
              [] req.provider.exc = "InvalidTokenError" -> 422
              [] req.provider.exc \in {"InternalServerError", "ApiError",
                                       "ResponseError", "ClientError",
                                       "ServerError", "UnprocessableEntityError"} -> 502
              [] OTHER -> 500
       /\ req.provider.exc = "InvalidTokenError" => resp.message = InvalidTokenMessage

\* C7 witness: the serverless function has answered an invalid token.
C7_Witness ==
    /\ Responded("serverless_subscribe")
    /\ ProviderCalled
    /\ req.provider.exc = "InvalidTokenError"
    /\ resp.status = 422
    /\ resp.message = InvalidTokenMessage

\* C8: in both implementations of POST /api/subscribe, a transaction error
\* that carries a 3-D Secure action token is answered 402 with that token
\* in the member three_d_secure_action_token_id of the body.
C8_TdsTokenSurfaced ==
    (/\ pc = "responded"
     /\ req.endpoint \in {"flask_subscribe", "serverless_subscribe"}
     /\ ProviderCalled
     /\ req.provider.raised
     /\ req.provider.exc = "TransactionError"
     /\ Truthy(tds_token_of(req.provider)))
    => /\ resp.status = 402
       /\ resp.three_d_secure_action_token_id = tds_token_of(req.provider)

\* C9: a JSON payload that validate_subscription_payload accepts, sent to a
\* configured Flask application whose provider does not fail, is answered
\* 201 with the subscription id the provider returned, whatever the values
\* of the optional members.
C9_AcceptedPayloadCreated ==
    (/\ Responded("flask_subscribe")
     /\ client = "Client"
     /\ req.is_json
     /\ validate_subscription_payload(req.json) = Returned(<<>>)
     /\ ~req.provider.raised)
    => /\ ProviderCalled
       /\ resp.status = 201
       /\ resp.success = "true"
       /\ resp.subscription_id = req.provider.value.id

\* The message of a required member
RequiredMessage(k) == Msg("'%s' is required.", k, <<>>)

\* The required members a payload lacks, in the order of the validator
MissingTopLevel(data) ==
    SelectSeq(<<"recurly_token", "plan_code", "first_name", "last_name", "email">>,
              LAMBDA k : \/ data.d[k].t # "str"
                         \/ strip(data.d[k].s) = <<>>)

\* C10: for every dict payload validate_subscription_payload returns, for
\* each of recurly_token, plan_code, first_name, last_name and email that is
\* missing, blank or not a string, the message '<field>' is required., once
\* each and in that order, and for no other of the five.
C10_RequiredMessages ==
    Responded("validate_subscription_payload") =>
       /\ ~resp.raised
       /\ LET missing == MissingTopLevel(req.data)
              five    == {"recurly_token", "plan_code", "first_name", "last_name", "email"}
          IN  SelectSeq(resp.value, LAMBDA m : m.fmt = "'%s' is required." /\ m.key \in five)
                 = [i \in 1..Len(missing) |-> RequiredMessage(missing[i])]

(***************************************************************************)
(* The two validators as functions of any decoded JSON value: the value is *)
(* drawn at the start and one action per validator applies it.             *)
(***************************************************************************)
PlanCodeValues ==
    {PyStr(code) : code \in VALID_PLAN_CODES}
    \cup {Str("gold"), Str("Classic-Monthly"), Str(""), Str(" "),
          PyInt(1399), PyList(1), PyNone, Absent}

EmailValues ==
    {Str("jane@example.com"), Str("Jane.O'Brien+test@Example.com"), Str("a@b.c"),
     Str("jane@example"), Str("jane @example.com"), Str("a@b@c.de"),
     Str("@example.com"), Str("jane@example.com\n"), Str(""), Str(" "),
     PyInt(5), Absent}

ZipValues ==
    {Str("10001"), Str("1234"), Str("123456"), Str("1000a"), Str(" 10001"),
     Str("10001\n"), Str(""), PyInt(10001), PyInt(5), PyList(1), PyNone, Absent}

StateValues == {Str("NY"), Str("ny"), Str("ZZ"), PyInt(5)}

\* Decoded JSON that is no object
NonDictValues == {PyNone, PyBool(TRUE), PyInt(5), Str("x"), PyList(1)}

ValidatorData ==
    NonDictValues
    \cup
    { [SamplePayload EXCEPT !.d["plan_code"] = plan_code, !.d["email"] = email,
                            !.d["address"] = address] :
        plan_code \in PlanCodeValues,
        email \in EmailValues,
        address \in {Str("123 Bloom St"), Absent}
                    \cup { [SampleAddress EXCEPT !.d["state"] = state, !.d["zip"] = zip] :
                             state \in StateValues, zip \in ZipValues } }

InitValidators ==
    /\ client = "None"
    /\ pc = "idle"
    /\ req \in {[endpoint |-> validator, data |-> data] :
                  validator \in {"backend.validate_subscription_payload", "api._validate"},
                  data \in ValidatorData}
    /\ resp = BaseResp
    /\ events = <<>>

\* errors = validate_subscription_payload(data), of backend/api/subscribe.py
ValidateFlask ==
    /\ pc = "idle"
    /\ req.endpoint = "backend.validate_subscription_payload"
    /\ resp' = validate_subscription_payload(req.data)
    /\ pc' = "responded"
    /\ UNCHANGED <<client, req, events>>

\* errors = _validate(data), of api/subscribe.py
ValidateServerless ==
    /\ pc = "idle"
    /\ req.endpoint = "api._validate"
    /\ resp' = _validate(req.data)
    /\ pc' = "responded"
    /\ UNCHANGED <<client, req, events>>

NextValidators == ValidateFlask \/ ValidateServerless

SpecValidators == InitValidators /\ [][NextValidators]_vars

\* C11: each of the two validators, given any decoded JSON value, returns a
\* list of errors and never raises, and the list has exactly one error when
\* the value is no object.
C11_ValidatorTotal ==
    (pc = "responded" /\ req.endpoint \in {"backend.validate_subscription_payload",
                                            "api._validate"})
    => /\ ~resp.raised
       /\ ~isinstance_dict(req.data) => Len(resp.value) = 1

ValidatedByFlask == Responded("backend.validate_subscription_payload")

\* The list returned holds an error that satisfies is_error
ReturnsErrorWith(is_error(_)) ==
    /\ ~resp.raised
    /\ \E i \in 1..Len(resp.value) : is_error(resp.value[i])

\* local@domain.tld: non-space non-@ characters, "@", more of them, ".",
\* more of them, and nothing else
EmailShape(s) ==
    LET plain(from, to) ==
            /\ from <= to
            /\ \A k \in from..to : s[k] \notin Whitespace /\ s[k] # "@"
    IN  \E at \in 1..Len(s) : \E dot \in 1..Len(s) :
            /\ s[at] = "@"
            /\ s[dot] = "."
            /\ plain(1, at - 1)
            /\ plain(at + 1, dot - 1)
            /\ plain(dot + 1, Len(s))

IsEmailFormatError(m) == m = Msg("'email' is not a valid email address.", "", <<>>)

\* C12: for every payload whose email is a string that does not have the
\* shape local@domain.tld, validate_subscription_payload returns a list
\* that contains "'email' is not a valid email address.".
C12_EmailFormatError ==
    (/\ ValidatedByFlask
     /\ isinstance_dict(req.data)
     /\ isinstance_str(req.data.d["email"])
     /\ ~EmailShape(req.data.d["email"].s))
    => ReturnsErrorWith(IsEmailFormatError)

\* An error about plan_code: the member is required, or is no known plan
IsPlanCodeError(m) ==
    \/ m = Msg("'%s' is required.", "plan_code", <<>>)
    \/ m.fmt = "'plan_code' '%s' is not a recognised plan."

\* C13: for every payload whose plan_code is a string,
\* validate_subscription_payload returns a list that contains an error about
\* plan_code when the string is outside the whitelist of ten codes, and a
\* list without any such error when it is inside.
C13_PlanWhitelist ==
    (/\ ValidatedByFlask
     /\ isinstance_dict(req.data)
     /\ isinstance_str(req.data.d["plan_code"]))
    => /\ Cardinality(VALID_PLAN_CODES) = 10
       /\ IF req.data.d["plan_code"].s \in VALID_PLAN_CODES
          THEN ~resp.raised /\ ~ReturnsErrorWith(IsPlanCodeError)
          ELSE ReturnsErrorWith(IsPlanCodeError)

\* A string of exactly five decimal digits
FiveDigits(v) ==
    /\ v.t = "str"
    /\ Len(v.s) = 5
    /\ \A k \in 1..5 : v.s[k] \in {"0", "1", "2", "3", "4", "5", "6", "7", "8", "9"}

\* An error about address.zip: the member is required, or is no ZIP code
IsZipError(m) ==
    \/ m = Msg("'%s' is required.", "zip", <<>>)
    \/ m = Msg("'address.zip' must be a 5-digit US ZIP code.", "", <<>>)

\* C14: for every payload whose address is an object and whose address.zip
\* is anything but a string of exactly five decimal digits,
\* validate_subscription_payload returns a list that contains an error about
\* address.zip.
C14_ZipFiveDigits ==
    (/\ ValidatedByFlask
     /\ isinstance_dict(req.data)
     /\ isinstance_dict(req.data.d["address"])
     /\ ~FiveDigits(req.data.d["address"].d["zip"]))
    => ReturnsErrorWith(IsZipError)

(***************************************************************************)
(* The account code as a function of the email: two customers' emails are  *)
(* drawn at the start, the codes are derived, and the first code is        *)
(* derived from once more.                                                 *)
(***************************************************************************)
\* A local part of n characters
LongLocal(n) == [i \in 1..n |-> "x"]

AccountEmails ==
    { Chars("jane@example.com"), Chars("Jane@Example.COM"), Chars("a+b@example.com"),
      Chars("a-b@example.com"), Chars("a_b@example.com"),
      Chars("Jane.O'Brien+test@Example.com"), Chars("jane example"), <<>>,
      Chars("ren") \o <<NonAsciiChar>> \o Chars("@example.com"),
      Chars("jane@example.com\n"),
      LongLocal(38) \o Chars("@example.com"),
      LongLocal(39) \o Chars("@Example.com"),
      LongLocal(45) \o Chars("@EXAMPLE.COM"),
      LongLocal(50) \o Chars("@a.example.com"),
      LongLocal(50) \o Chars("@b.example.com") }

\* The payload of a customer with this email
PayloadOf(email) == [SamplePayload EXCEPT !.d["email"] = PyStr(email)]

InitAccountCode ==
    /\ client = "Client"
    /\ pc = "idle"
    /\ req \in {[endpoint |-> "_account_code_from_email", email |-> email,
                 other |-> other] : email \in AccountEmails, other \in AccountEmails}
    /\ resp = [code |-> <<>>, again |-> <<>>, account |-> PyNone, other_account |-> PyNone]
    /\ events = <<>>

\* _account_code_from_email(email), and the "code" of the account that
\* create_subscription builds for each of the two customers
Derive ==
    /\ pc = "idle"
    /\ req.endpoint = "_account_code_from_email"
    /\ resp' = [code          |-> _account_code_from_email(req.email),
                again         |-> <<>>,
                account       |-> subscription_body(PayloadOf(req.email)).account.code,
                other_account |-> subscription_body(PayloadOf(req.other)).account.code]
    /\ pc' = "responded"
    /\ UNCHANGED <<client, req, events>>

\* _account_code_from_email(code), for a code derived before
DeriveAgain ==
    /\ pc = "responded"
    /\ req.endpoint = "_account_code_from_email"
    /\ resp' = [resp EXCEPT !.again = _account_code_from_email(resp.code)]
    /\ pc' = "rederived"
    /\ UNCHANGED <<client, req, events>>

NextAccountCode == Derive \/ DeriveAgain

SpecAccountCode == InitAccountCode /\ [][NextAccountCode]_vars

CodeAlphabet ==
    { "a", "b", "c", "d", "e", "f", "g", "h", "i", "j", "k", "l", "m", "n", "o", "p",
      "q", "r", "s", "t", "u", "v", "w", "x", "y", "z", "0", "1", "2", "3", "4", "5",
      "6", "7", "8", "9", ".", "_", "-" }

\* C15: for every email string the derived account code has at most 50
\* characters, all of them in [a-z0-9._-]; it is the lowercased email with
\* every other character replaced by "-", cut to 50 characters; and deriving
\* from the code gives the code again.
C15_AccountCodeShape ==
    (pc \in {"responded", "rederived"} /\ req.endpoint = "_account_code_from_email")
    => /\ Len(resp.code) <= 50
       /\ \A i \in 1..Len(resp.code) : resp.code[i] \in CodeAlphabet
       /\ Len(resp.code) = (IF Len(req.email) < 50 THEN Len(req.email) ELSE 50)
       /\ \A i \in 1..Len(resp.code) :
             resp.code[i] = (IF lower(req.email)[i] \in CodeAlphabet
                             THEN lower(req.email)[i] ELSE "-")
       /\ pc = "rederived" => resp.again = resp.code

\* C15 witness: an email of more than 50 characters with capitals and an
\* "@" has been cut to a code of 50, and the code derived from again.
C15_Witness ==
    /\ pc = "rederived"
    /\ Len(req.email) > 50
    /\ req.email # lower(req.email)
    /\ Len(resp.code) = 50
    /\ \E i \in 1..50 : resp.code[i] = "-" /\ req.email[i] = "@"
    /\ resp.again = resp.code

\* The email passes validate_subscription_payload
PassesValidation(email) == validate_subscription_payload(PayloadOf(email)) = Returned(<<>>)

\* C16: two emails that pass validation and differ by more than the case of
\* their letters never get the same account code in the body that
\* create_subscription builds.
C16_AccountCodeUnique ==
    (/\ pc \in {"responded", "rederived"}
     /\ req.endpoint = "_account_code_from_email"
     /\ PassesValidation(req.email)
     /\ PassesValidation(req.other)
     /\ lower(req.email) # lower(req.other))
    => resp.account # resp.other_account

AccountEndpoints ==
    {"get_account", "list_subscriptions", "pause_subscription", "cancel_subscription",
     "change_plan", "update_billing", "list_invoices"}

AccountResponded == pc = "responded" /\ req.endpoint \in AccountEndpoints

\* The provider calls of the request that raised (at most one: the handler
\* makes no call after a call that raised)
ProviderErrors == SelectSeq(req.provider, LAMBDA o : o.raised)

\* The provider's exception classes that are API errors
ApiErrorClasses ==
    {"ValidationError", "NotFoundError", "TransactionError", "InvalidTokenError",
     "InternalServerError"}

\* C17: on each of the seven account operations a not-found error of the
\* provider is answered 404, a validation error 422, a transaction error
\* 402 on the billing update and 502 elsewhere, and any other API error of
\* the provider 502.
C17_AccountErrorMapping ==
    (/\ AccountResponded
     /\ ProviderCalled
     /\ ProviderErrors # <<>>
     /\ ProviderErrors[1].exc \in ApiErrorClasses)
    => resp.status =
          CASE ProviderErrors[1].exc = "NotFoundError"   -> 404
            [] ProviderErrors[1].exc = "ValidationError" -> 422
            [] ProviderErrors[1].exc = "TransactionError"
                  /\ req.endpoint = "update_billing"     -> 402
            [] OTHER                                     -> 502

\* The response of the application to a request, as a function of the
\* request and of what the provider does in it
Handle(request) ==
    CASE request.endpoint = "flask_subscribe" ->
            create_subscription(client, request, request.provider)
      [] request.endpoint = "serverless_subscribe" ->
            do_POST(request.environ, request, request.provider)
      [] request.endpoint = "webhook"            -> _check_basic_auth(request)
      [] request.endpoint = "get_account"        -> get_account(client, request, request.provider)
      [] request.endpoint = "list_subscriptions" -> list_subscriptions(client, request, request.provider)
      [] request.endpoint = "pause_subscription" -> pause_subscription(client, request, request.provider)
      [] request.endpoint = "cancel_subscription" -> cancel_subscription(client, request, request.provider)
      [] request.endpoint = "change_plan"        -> change_plan(client, request, request.provider)
      [] request.endpoint = "update_billing"     -> update_billing(client, request, request.provider)
      [] request.endpoint = "list_invoices"      -> list_invoices(client, request, request.provider)

\* The same request, the provider's errors carrying another text
WithErrorText(request, text) ==
    LET retold(o) == IF o.raised THEN [o EXCEPT !.msg = text] ELSE o IN
    IF request.endpoint \in AccountEndpoints
    THEN [request EXCEPT !.provider = <<retold(request.provider[1]),
                                        retold(request.provider[2])>>]
    ELSE [request EXCEPT !.provider = retold(request.provider)]

\* C18: a response of status 502 does not depend on the text of the
\* provider's error: the same request with any other text in the error gets
\* the same response.
C18_GenericBadGateway ==
    (/\ pc = "responded"
     /\ req.endpoint \in AccountEndpoints \cup {"flask_subscribe", "serverless_subscribe"}
     /\ resp.status = 502)
    => \A text \in ErrorTexts : Handle(WithErrorText(req, text)).resp = resp

MutatingCalls ==
    SelectSeq(events, LAMBDA e : e.op \in {"pause_subscription", "cancel_subscription",
                                           "terminate_subscription", "update_subscription"})

\* The body of the request is an object that sets at_end_of_billing_period
\* to false
ExplicitlyImmediate ==
    /\ req.is_json
    /\ isinstance_dict(req.json)
    /\ req.json.d["at_end_of_billing_period"] = PyBool(FALSE)

\* C19: a cancel request whose lookup finds an active subscription makes
\* exactly one mutating call, on that subscription: terminate with refund
\* none when the body sets at_end_of_billing_period to false, and cancel in
\* every other case.
C19_CancelSemantics ==
    (/\ Responded("cancel_subscription")
     /\ ProviderCalled
     /\ ~req.provider[1].raised
     /\ req.provider[1].value # <<>>)
    => /\ Len(MutatingCalls) = 1
       /\ MutatingCalls[1].ref = req.provider[1].value[1].id
       /\ IF ExplicitlyImmediate
          THEN /\ MutatingCalls[1].op = "terminate_subscription"
               /\ MutatingCalls[1].body = [refund |-> "none"]
          ELSE MutatingCalls[1].op = "cancel_subscription"

\* C20: POST /api/subscribe of the Flask application answers 503 and calls
\* nothing when the client is not configured; else 400 when the body is not
\* JSON; else 422 with the first error as message and the whole list as
\* errors when the payload does not pass validation; the provider is called
\* only for a payload that passes, with create_subscription, at most once,
\* also when that call raises.
C20_SubscribeOrder ==
    Responded("flask_subscribe") =>
       LET errors == validate_subscription_payload(req.json) IN
       /\ Len(events) <= 1
       /\ \A i \in 1..Len(events) : events[i].op = "create_subscription"
       /\ IF client = "None" THEN resp.status = 503 /\ events = <<>>
          ELSE IF ~req.is_json THEN resp.status = 400 /\ events = <<>>
          ELSE IF errors # Returned(<<>>)
          THEN /\ resp.status = 422
               /\ ~errors.raised => /\ resp.message = errors.value[1]
                                    /\ resp.errors = errors.value
               /\ events = <<>>
          ELSE resp.status \notin {503, 400}

\* The mutating call of each of the three endpoints that look the active
\* subscription up
MutatingOps(endpoint) ==
    CASE endpoint = "pause_subscription"  -> {"pause_subscription"}
      [] endpoint = "cancel_subscription" -> {"cancel_subscription", "terminate_subscription"}
      [] endpoint = "change_plan"         -> {"update_subscription"}

\* C21: pause, cancel and change plan look the active subscription up with
\* state active and limit 1; when the lookup returns nothing they answer 404
\* and make no mutating call; when it returns subscriptions they make one
\* mutating call, their own, on the id of the first one returned; when it
\* raises they make none.
C21_ActiveSubscriptionLookup ==
    (/\ pc = "responded"
     /\ req.endpoint \in {"pause_subscription", "cancel_subscription", "change_plan"}
     /\ ProviderCalled)
    => /\ events[1] = [op   |-> "list_account_subscriptions",
                       ref  |-> <<"code-", req.account_code>>,
                       body |-> [state |-> "active", limit |-> 1]]
       /\ IF req.provider[1].raised THEN MutatingCalls = <<>>
          ELSE IF req.provider[1].value = <<>>
          THEN resp.status = 404 /\ MutatingCalls = <<>>
          ELSE /\ Len(MutatingCalls) = 1
               /\ MutatingCalls[1].op \in MutatingOps(req.endpoint)
               /\ MutatingCalls[1].ref = req.provider[1].value[1].id

\* C21 witness: the lookup returned two subscriptions and the plan of the
\* first one was changed.
C21_Witness ==
    /\ Responded("change_plan")
    /\ ~req.provider[1].raised
    /\ Len(req.provider[1].value) = 2
    /\ Len(MutatingCalls) = 1
    /\ MutatingCalls[1].op = "update_subscription"
    /\ MutatingCalls[1].ref = req.provider[1].value[1].id
    /\ resp.status = 200

\* The plan codes sent to the provider in the calls of the request: the
\* plan_code of the body of create_subscription and of update_subscription
PlanCodesSent ==
    { IF events[i].op = "create_subscription"
      THEN events[i].body.plan_code
      ELSE PyStr(events[i].body.plan_code) :
        i \in {j \in 1..Len(events) :
                 events[j].op \in {"create_subscription", "update_subscription"}} }

\* C22: every plan code sent to the provider, by a subscribe request of
\* either implementation or by a change-plan request, at any point of any
\* sequence of requests, is one of the ten codes of VALID_PLAN_CODES.
C22_PlanCodesWhitelisted ==
    /\ Cardinality(VALID_PLAN_CODES) = 10
    /\ PlanCodesSent \subseteq {PyStr(code) : code \in VALID_PLAN_CODES}

====
